---- MODULE Spec2Model ----
(***************************************************************************)
(* Model of src/Main.py: WorkloadManagementSystem, the restaurant order    *)
(* dispatch engine (staff registry, capability index, order queue,         *)
(* dispatcher and order lifecycle).                                        *)
(*                                                                         *)
(* Python objects are modelled as a heap: `orders` holds every Order ever  *)
(* created, indexed by creation order (the index is the object identity),  *)
(* and `orders_queue` is the list of references kept by the system.        *)
(* OrderItem.toppings and OrderItem.price are not modelled: no operation   *)
(* of the system reads them after construction.                            *)
(***************************************************************************)
EXTENDS Integers, Sequences, FiniteSets, TLC

(* ------------------------------ bounds --------------------------------- *)
\* number of orders place_order may create in one run
MaxOrders == 3
\* number of distinct values of uuid4().hex[:3] that are drawn
MaxSuffix == 2
\* last reading of datetime.now()
MaxClock == 0
\* clock readings per calendar day (strftime('%d%m%Y') drops the time of day)
TicksPerDay == 2

(* --------------------------- static data ------------------------------- *)
ProductType == {"VEG_PIZZA", "NV_PIZZA", "SANDWICH", "BURGER", "DRINKS"}

OrderStatus == {"PLACED", "WIP", "COMPLETE"}

\* self.products after _initialize_sample_data: code -> product_type
products ==
  [c \in {"P001", "P002", "S001", "B001", "D001"} |->
     CASE c = "P001" -> "VEG_PIZZA"
       [] c = "P002" -> "NV_PIZZA"
       [] c = "S001" -> "SANDWICH"
       [] c = "B001" -> "BURGER"
       [] c = "D001" -> "DRINKS"]

\* insertion order of self.products
ProductOrder == <<"P001", "P002", "S001", "B001", "D001">>

\* insertion order of self.staff_members
StaffOrder == <<"S001", "S002", "S003", "S004", "S005">>

StaffIds == {StaffOrder[i] : i \in 1..Len(StaffOrder)}

\* Staff.skills of each staff member, in list order
skills ==
  [s \in StaffIds |->
     CASE s = "S001" -> <<"VEG_PIZZA", "BURGER">>
       [] s = "S002" -> <<"VEG_PIZZA", "NV_PIZZA", "SANDWICH", "BURGER">>
       [] s = "S003" -> <<"NV_PIZZA">>
       [] s = "S004" -> <<"SANDWICH">>
       [] s = "S005" -> <<"DRINKS">>]

\* Staff.can_handle_product
can_handle_product(s, pt) == \E i \in 1..Len(skills[s]) : skills[s][i] = pt

(* ------------------------------ inputs --------------------------------- *)
\* staff ids the callers pass to staff_login / staff_logout
StaffIdInputs == {"S001", "S002", "S004", "S999"}

\* a request item: the dict passed to place_order; quantity 0 stands for a
\* dict without the 'quantity' key
Req(code, q) == [product_code |-> code, quantity |-> q]

\* the item lists the callers pass to place_order
RequestLists ==
  { <<>>,
    <<Req("X999", 1)>>,
    <<Req("P001", 2)>>,
    <<Req("P001", 2), Req("S001", 1)>>,
    <<Req("X999", 1), Req("S001", 0)>> }

Suffixes == 1..MaxSuffix

\* f"ORD{date}{suffix}" as the pair (date, suffix)
OrderNumber(date, suffix) == <<date, suffix>>

\* an order number no place_order call produces
NoSuchOrderNumber == OrderNumber(0, 0)

\* datetime.now().strftime('%d%m%Y')
DateOf(t) == t \div TicksPerDay

OrderNumberInputs ==
  {OrderNumber(DateOf(t), s) : t \in 0..MaxClock, s \in Suffixes}
    \cup {NoSuchOrderNumber}

ProductCodeInputs == {"P001", "X999"}

\* Optional[datetime]
None == <<>>
Some(t) == <<t>>

(* ------------------------------- state --------------------------------- *)
VARIABLES
  orders,                 \* heap of Order objects, by creation index
  orders_queue,           \* self.orders_queue: list of references into orders
  staff_logged_in,        \* self.staff_members[id].logged_in
  product_group_mapping,  \* self.product_group_mapping
  clock,                  \* last value datetime.now() returned
  call,                   \* the last operation invoked, with its argument;
                          \* again: it repeats the call before it (a second
                          \* process_orders, a logout of the same id, a
                          \* completion of an order that is Complete);
                          \* before: the login flags and the index as a
                          \* staff_login found them; round_trip: a logout
                          \* that directly follows the login of the same
                          \* id, which was logged out before that login
  ret,                    \* what that operation returned (or raised)
  passes                  \* the process_orders calls of the concurrent
                          \* callers: their position and local variables

vars == <<orders, orders_queue, staff_logged_in, product_group_mapping,
          clock, call, ret, passes>>

\* the callers that run process_orders concurrently (SpecConc)
Callers == {"A", "B"}

\* a caller that has not called process_orders
IdlePass == [pc |-> "idle", copy |-> <<>>, i |-> 0, processed_orders |-> <<>>]

\* the values datetime.now() can return next
Now == {t \in {clock, clock + 1} : t <= MaxClock}

\* the outcome of a call: a returned list of orders, a returned boolean, a
\* returned order, or a raised exception
Return(v) == [raised |-> FALSE, value |-> v]
ReturnFlag(b) == [raised |-> FALSE, flag |-> b]
ReturnOrder(o) == [raised |-> FALSE, order |-> o]
Raise(e) == [raised |-> TRUE, error |-> e]

(* ------------------------- capability index ---------------------------- *)
\* the inner loop of _update_product_group_mapping: append staff s to the
\* list of each of its skills, from skill j on
RECURSIVE AppendSkills(_, _, _)
AppendSkills(m, s, j) ==
  IF j > Len(skills[s]) THEN m
  ELSE AppendSkills([m EXCEPT ![skills[s][j]] = Append(@, s)], s, j + 1)

\* the outer loop of _update_product_group_mapping, from staff i on
RECURSIVE RebuildFrom(_, _, _)
RebuildFrom(m, logged, i) ==
  IF i > Len(StaffOrder) THEN m
  ELSE IF logged[StaffOrder[i]]
       THEN RebuildFrom(AppendSkills(m, StaffOrder[i], 1), logged, i + 1)
       ELSE RebuildFrom(m, logged, i + 1)

update_product_group_mapping(logged) ==
  RebuildFrom([pt \in ProductType |-> <<>>], logged, 1)

(* ------------------------------- Init ---------------------------------- *)
Init ==
  /\ orders = <<>>
  /\ orders_queue = <<>>
  /\ staff_logged_in = [s \in StaffIds |-> FALSE]
  /\ product_group_mapping = update_product_group_mapping(staff_logged_in)
  /\ clock = 0
  /\ call = [op |-> "init", arg |-> <<>>, again |-> FALSE]
  /\ ret = Return(<<>>)
  /\ passes = [c \in Callers |-> IdlePass]

(* ----------------------------- staff ----------------------------------- *)
\* the staff state a staff_login call finds
Snapshot == [logged_in |-> staff_logged_in, mapping |-> product_group_mapping]

\* the call before this one was staff_login(staff_id), and it found staff_id
\* logged out
FollowsFreshLogin(staff_id) ==
  /\ call.op = "staff_login"
  /\ call.arg = <<staff_id>>
  /\ staff_id \in StaffIds
  /\ ~call.before.logged_in[staff_id]

\* as staff_login, but an unknown id gets a staff record
staff_login_autocreate(staff_id) ==
  /\ call' = [op |-> "staff_login", arg |-> <<staff_id>>, again |-> FALSE,
              before |-> Snapshot]
  /\ staff_logged_in' =
       [s \in DOMAIN staff_logged_in \cup {staff_id} |->
          IF s = staff_id THEN TRUE ELSE staff_logged_in[s]]
  /\ product_group_mapping' = update_product_group_mapping(staff_logged_in')
  /\ ret' = ReturnFlag(TRUE)
  /\ UNCHANGED <<orders, orders_queue, clock, passes>>

staff_login(staff_id) ==
  /\ call' = [op |-> "staff_login", arg |-> <<staff_id>>, again |-> FALSE,
              before |-> Snapshot]
  /\ IF staff_id \in StaffIds
     THEN /\ staff_logged_in' = [staff_logged_in EXCEPT ![staff_id] = TRUE]
          /\ product_group_mapping' =
               update_product_group_mapping(staff_logged_in')
          /\ ret' = ReturnFlag(TRUE)
     ELSE /\ UNCHANGED <<staff_logged_in, product_group_mapping>>
          /\ ret' = ReturnFlag(FALSE)
  /\ UNCHANGED <<orders, orders_queue, clock, passes>>

\* as staff_logout, but the capability index is not rebuilt
staff_logout_stale(staff_id) ==
  /\ call' = [op |-> "staff_logout", arg |-> <<staff_id>>,
              again |-> call.op = "staff_logout" /\ call.arg = <<staff_id>>,
              round_trip |-> FollowsFreshLogin(staff_id)]
  /\ IF staff_id \in StaffIds
     THEN /\ staff_logged_in' = [staff_logged_in EXCEPT ![staff_id] = FALSE]
          /\ ret' = ReturnFlag(TRUE)
     ELSE /\ UNCHANGED staff_logged_in
          /\ ret' = ReturnFlag(FALSE)
  /\ UNCHANGED <<orders, orders_queue, clock, product_group_mapping,
                 passes>>

\* as staff_logout, but the flag is set as staff_login sets it
staff_logout_sets_true(staff_id) ==
  /\ call' = [op |-> "staff_logout", arg |-> <<staff_id>>,
              again |-> call.op = "staff_logout" /\ call.arg = <<staff_id>>,
              round_trip |-> FollowsFreshLogin(staff_id)]
  /\ IF staff_id \in StaffIds
     THEN /\ staff_logged_in' = [staff_logged_in EXCEPT ![staff_id] = TRUE]
          /\ product_group_mapping' =
               update_product_group_mapping(staff_logged_in')
          /\ ret' = ReturnFlag(TRUE)
     ELSE /\ UNCHANGED <<staff_logged_in, product_group_mapping>>
          /\ ret' = ReturnFlag(FALSE)
  /\ UNCHANGED <<orders, orders_queue, clock, passes>>

\* as staff_logout, but the flag is toggled
staff_logout_toggle(staff_id) ==
  /\ call' = [op |-> "staff_logout", arg |-> <<staff_id>>,
              again |-> call.op = "staff_logout" /\ call.arg = <<staff_id>>,
              round_trip |-> FollowsFreshLogin(staff_id)]
  /\ IF staff_id \in StaffIds
     THEN /\ staff_logged_in' = [staff_logged_in EXCEPT ![staff_id] = ~@]
          /\ product_group_mapping' =
               update_product_group_mapping(staff_logged_in')
          /\ ret' = ReturnFlag(TRUE)
     ELSE /\ UNCHANGED <<staff_logged_in, product_group_mapping>>
          /\ ret' = ReturnFlag(FALSE)
  /\ UNCHANGED <<orders, orders_queue, clock, passes>>

staff_logout(staff_id) ==
  /\ call' = [op |-> "staff_logout", arg |-> <<staff_id>>,
              again |-> call.op = "staff_logout" /\ call.arg = <<staff_id>>,
              round_trip |-> FollowsFreshLogin(staff_id)]
  /\ IF staff_id \in StaffIds
     THEN /\ staff_logged_in' = [staff_logged_in EXCEPT ![staff_id] = FALSE]
          /\ product_group_mapping' =
               update_product_group_mapping(staff_logged_in')
          /\ ret' = ReturnFlag(TRUE)
     ELSE /\ UNCHANGED <<staff_logged_in, product_group_mapping>>
          /\ ret' = ReturnFlag(FALSE)
  /\ UNCHANGED <<orders, orders_queue, clock, passes>>

(* --------------------------- Order ------------------------------------- *)
\* Order(order_number, items): the dataclass defaults, created_at = now
NewOrder(order_number, items, t) ==
  [order_number |-> order_number, items |-> items, status |-> "PLACED",
   created_at |-> t, completed_at |-> None]

\* as update_status, but completed_at is stamped on every status change
update_status_stamp_always(order, new_status, t) ==
  [order EXCEPT !.status = new_status, !.completed_at = Some(t)]

\* Order.update_status; t is the value datetime.now() returns if it is read
update_status(order, new_status, t) ==
  [order EXCEPT !.status = new_status,
                !.completed_at = IF new_status = "COMPLETE" THEN Some(t) ELSE @]

(* --------------------------- place_order ------------------------------- *)
\* the loop of place_order over the request items, from item i on
RECURSIVE BuildOrderItems(_, _, _)
BuildOrderItems(items, i, order_items) ==
  IF i > Len(items) THEN order_items
  ELSE IF items[i].product_code \notin DOMAIN products
       THEN BuildOrderItems(items, i + 1, order_items)
       ELSE BuildOrderItems(items, i + 1,
              Append(order_items,
                     [product_code |-> items[i].product_code,
                      quantity |-> IF items[i].quantity = 0 THEN 1
                                   ELSE items[i].quantity]))

\* as place_order, but without the check for an empty item list
place_order_unchecked(items) ==
  \E t1 \in Now, suffix \in Suffixes :
    LET order_number == OrderNumber(DateOf(t1), suffix)
        order_items == BuildOrderItems(items, 1, <<>>)
    IN /\ call' = [op |-> "place_order", arg |-> items, again |-> FALSE]
       /\ Len(orders) < MaxOrders
       /\ \E t2 \in {t \in {t1, t1 + 1} : t <= MaxClock} :
            /\ orders' = Append(orders,
                                NewOrder(order_number, order_items, t2))
            /\ clock' = t2
       /\ orders_queue' = Append(orders_queue, Len(orders) + 1)
       /\ ret' = ReturnOrder(Len(orders) + 1)
       /\ UNCHANGED <<staff_logged_in, product_group_mapping, passes>>

place_order(items) ==
  \E t1 \in Now, suffix \in Suffixes :
    LET order_number == OrderNumber(DateOf(t1), suffix)
        order_items == BuildOrderItems(items, 1, <<>>)
    IN /\ call' = [op |-> "place_order", arg |-> items, again |-> FALSE]
       /\ IF order_items = <<>>
          THEN /\ ret' = Raise("ValueError")
               /\ clock' = t1
               /\ UNCHANGED <<orders, orders_queue>>
          ELSE /\ Len(orders) < MaxOrders
               /\ \E t2 \in {t \in {t1, t1 + 1} : t <= MaxClock} :
                    /\ orders' = Append(orders,
                                        NewOrder(order_number, order_items, t2))
                    /\ clock' = t2
               /\ orders_queue' = Append(orders_queue, Len(orders) + 1)
               /\ ret' = ReturnOrder(Len(orders) + 1)
       /\ UNCHANGED <<staff_logged_in, product_group_mapping, passes>>

(* -------------------------- process_orders ----------------------------- *)
\* the inner loop of process_orders: the index of the first item of the order
\* whose category has no available staff, 0 if there is none
RECURSIVE FirstUnassigned(_, _, _)
FirstUnassigned(items, mapping, i) ==
  IF i > Len(items) THEN 0
  ELSE IF mapping[products[items[i].product_code]] = <<>>
       THEN i
       ELSE FirstUnassigned(items, mapping, i + 1)

\* as all_items_assigned, but only the first item of the order is looked at
all_items_assigned_first(order, mapping) ==
  mapping[products[order.items[1].product_code]] # <<>>

all_items_assigned(order, mapping) ==
  FirstUnassigned(order.items, mapping, 1) = 0

\* list.index as list.remove uses it: the first position holding the object
\* itself or an object equal to it field by field (dataclass __eq__); 0 if none
RECURSIVE IndexOf(_, _, _, _)
IndexOf(queue, heap, o, k) ==
  IF k > Len(queue) THEN 0
  ELSE IF queue[k] = o \/ heap[queue[k]] = heap[o]
       THEN k
       ELSE IndexOf(queue, heap, o, k + 1)

\* as RemoveAt, but the last element is moved into the hole
RemoveAt_swap(queue, k) ==
  [j \in 1..(Len(queue) - 1) |-> IF j = k THEN queue[Len(queue)] ELSE queue[j]]

\* the list without its k-th element
RemoveAt(queue, k) ==
  [j \in 1..(Len(queue) - 1) |-> IF j < k THEN queue[j] ELSE queue[j + 1]]

\* as ProcessLoop, but iterating the live queue instead of a copy of it
RECURSIVE ProcessLoop_live(_, _, _, _, _, _)
ProcessLoop_live(copy, i, heap, queue, mapping, processed_orders) ==
  IF i > Len(queue)
  THEN [orders |-> heap, queue |-> queue, ret |-> Return(processed_orders)]
  ELSE LET o == queue[i] IN
       IF heap[o].status # "PLACED" \/ ~all_items_assigned(heap[o], mapping)
       THEN ProcessLoop_live(copy, i + 1, heap, queue, mapping,
                             processed_orders)
       ELSE LET heap2 == [heap EXCEPT ![o] = update_status(@, "WIP", 0)]
            IN ProcessLoop_live(copy, i + 1, heap2, RemoveAt(queue, i),
                                mapping, Append(processed_orders, o))

\* as ProcessLoop, but the pass ends with the first order it dispatches
RECURSIVE ProcessLoop_first_only(_, _, _, _, _, _)
ProcessLoop_first_only(copy, i, heap, queue, mapping, processed_orders) ==
  IF i > Len(copy)
  THEN [orders |-> heap, queue |-> queue, ret |-> Return(processed_orders)]
  ELSE LET o == copy[i] IN
       IF heap[o].status # "PLACED" \/ ~all_items_assigned(heap[o], mapping)
       THEN ProcessLoop_first_only(copy, i + 1, heap, queue, mapping,
                                   processed_orders)
       ELSE LET heap2 == [heap EXCEPT ![o] = update_status(@, "WIP", 0)]
            IN [orders |-> heap2,
                queue |-> RemoveAt(queue, IndexOf(queue, heap2, o, 1)),
                ret |-> Return(Append(processed_orders, o))]

\* as ProcessLoop, but the status of the order is not looked at
RECURSIVE ProcessLoop_any_status(_, _, _, _, _, _)
ProcessLoop_any_status(copy, i, heap, queue, mapping, processed_orders) ==
  IF i > Len(copy)
  THEN [orders |-> heap, queue |-> queue, ret |-> Return(processed_orders)]
  ELSE LET o == copy[i] IN
       IF ~all_items_assigned(heap[o], mapping)
       THEN ProcessLoop_any_status(copy, i + 1, heap, queue, mapping,
                                   processed_orders)
       ELSE LET heap2 == [heap EXCEPT ![o] = update_status(@, "WIP", 0)]
            IN ProcessLoop_any_status(copy, i + 1, heap2,
                 RemoveAt(queue, IndexOf(queue, heap2, o, 1)),
                 mapping, Append(processed_orders, o))

\* as ProcessLoop, but a dispatched order is put at the head of the result
RECURSIVE ProcessLoop_prepend(_, _, _, _, _, _)
ProcessLoop_prepend(copy, i, heap, queue, mapping, processed_orders) ==
  IF i > Len(copy)
  THEN [orders |-> heap, queue |-> queue, ret |-> Return(processed_orders)]
  ELSE LET o == copy[i] IN
       IF heap[o].status # "PLACED" \/ ~all_items_assigned(heap[o], mapping)
       THEN ProcessLoop_prepend(copy, i + 1, heap, queue, mapping,
                                processed_orders)
       ELSE LET heap2 == [heap EXCEPT ![o] = update_status(@, "WIP", 0)]
            IN ProcessLoop_prepend(copy, i + 1, heap2,
                 RemoveAt(queue, IndexOf(queue, heap2, o, 1)),
                 mapping, <<o>> \o processed_orders)

\* as ProcessLoop, but a dispatched order is not removed from the queue
RECURSIVE ProcessLoop_keep(_, _, _, _, _, _)
ProcessLoop_keep(copy, i, heap, queue, mapping, processed_orders) ==
  IF i > Len(copy)
  THEN [orders |-> heap, queue |-> queue, ret |-> Return(processed_orders)]
  ELSE LET o == copy[i] IN
       IF heap[o].status # "PLACED" \/ ~all_items_assigned(heap[o], mapping)
       THEN ProcessLoop_keep(copy, i + 1, heap, queue, mapping,
                             processed_orders)
       ELSE LET heap2 == [heap EXCEPT ![o] = update_status(@, "WIP", 0)]
            IN ProcessLoop_keep(copy, i + 1, heap2, queue, mapping,
                                Append(processed_orders, o))

\* as ProcessLoop, but the pass ends at the first order it cannot assign
RECURSIVE ProcessLoop_break_on_skip(_, _, _, _, _, _)
ProcessLoop_break_on_skip(copy, i, heap, queue, mapping, processed_orders) ==
  IF i > Len(copy)
  THEN [orders |-> heap, queue |-> queue, ret |-> Return(processed_orders)]
  ELSE LET o == copy[i] IN
       IF heap[o].status # "PLACED"
       THEN ProcessLoop_break_on_skip(copy, i + 1, heap, queue, mapping,
                                      processed_orders)
       ELSE IF ~all_items_assigned(heap[o], mapping)
       THEN [orders |-> heap, queue |-> queue,
             ret |-> Return(processed_orders)]
       ELSE LET heap2 == [heap EXCEPT ![o] = update_status(@, "WIP", 0)]
            IN ProcessLoop_break_on_skip(copy, i + 1, heap2,
                 RemoveAt(queue, IndexOf(queue, heap2, o, 1)),
                 mapping, Append(processed_orders, o))

\* the loop of process_orders over the copy of the queue, from position i on
RECURSIVE ProcessLoop(_, _, _, _, _, _)
ProcessLoop(copy, i, heap, queue, mapping, processed_orders) ==
  IF i > Len(copy)
  THEN [orders |-> heap, queue |-> queue, ret |-> Return(processed_orders)]
  ELSE LET o == copy[i] IN
       IF heap[o].status # "PLACED"
       THEN ProcessLoop(copy, i + 1, heap, queue, mapping, processed_orders)
       ELSE IF ~all_items_assigned(heap[o], mapping)
       THEN ProcessLoop(copy, i + 1, heap, queue, mapping, processed_orders)
       ELSE LET heap2 == [heap EXCEPT ![o] = update_status(@, "WIP", 0)]
                k == IndexOf(queue, heap2, o, 1)
            IN IF k = 0
               THEN [orders |-> heap2, queue |-> queue,
                     ret |-> Raise("ValueError")]
               ELSE ProcessLoop(copy, i + 1, heap2, RemoveAt(queue, k),
                                mapping, Append(processed_orders, o))

process_orders ==
  LET r == ProcessLoop(orders_queue, 1, orders, orders_queue,
                       product_group_mapping, <<>>)
  IN /\ call' = [op |-> "process_orders", arg |-> <<>>,
              again |-> call.op = "process_orders"]
     /\ orders' = r.orders
     /\ orders_queue' = r.queue
     /\ ret' = r.ret
     /\ UNCHANGED <<staff_logged_in, product_group_mapping, clock,
                    passes>>

(* ------------------------ complete_order_item -------------------------- *)
\* as FindOrder, but the head of the queue is the default when nothing matches
RECURSIVE FindOrder_default_head(_, _, _, _)
FindOrder_default_head(queue, heap, order_number, k) ==
  IF k > Len(queue) THEN (IF queue = <<>> THEN 0 ELSE 1)
  ELSE IF heap[queue[k]].order_number = order_number
       THEN k
       ELSE FindOrder_default_head(queue, heap, order_number, k + 1)

\* next((o for o in self.orders_queue if o.order_number == order_number), None):
\* the queue position of the first match, 0 for None
RECURSIVE FindOrder(_, _, _, _)
FindOrder(queue, heap, order_number, k) ==
  IF k > Len(queue) THEN 0
  ELSE IF heap[queue[k]].order_number = order_number
       THEN k
       ELSE FindOrder(queue, heap, order_number, k + 1)

complete_order_item(order_number, product_code) ==
  LET k == FindOrder(orders_queue, orders, order_number, 1) IN
    /\ call' = [op |-> "complete_order_item", arg |-> order_number,
                again |-> k # 0 /\ orders[orders_queue[k]].status = "COMPLETE"]
    /\ IF k = 0
       THEN /\ ret' = ReturnFlag(FALSE)
            /\ UNCHANGED <<orders, clock>>
       ELSE \E t \in Now :
              /\ orders' = [orders EXCEPT ![orders_queue[k]] =
                              update_status(@, "COMPLETE", t)]
              /\ clock' = t
              /\ ret' = ReturnFlag(TRUE)
    /\ UNCHANGED <<orders_queue, staff_logged_in, product_group_mapping,
                   passes>>

(* ------------------------------ queries ------------------------------- *)
\* as AvailableFrom, but a category counts as covered when it is a key of
\* the index
RECURSIVE AvailableFrom_key_present(_, _, _)
AvailableFrom_key_present(mapping, i, available_products) ==
  IF i > Len(ProductOrder) THEN available_products
  ELSE IF products[ProductOrder[i]] \in DOMAIN mapping
       THEN AvailableFrom_key_present(mapping, i + 1,
              Append(available_products, ProductOrder[i]))
       ELSE AvailableFrom_key_present(mapping, i + 1, available_products)

\* the loop of get_available_products over self.products, from product i on
RECURSIVE AvailableFrom(_, _, _)
AvailableFrom(mapping, i, available_products) ==
  IF i > Len(ProductOrder) THEN available_products
  ELSE IF mapping[products[ProductOrder[i]]] # <<>>
       THEN AvailableFrom(mapping, i + 1,
                          Append(available_products, ProductOrder[i]))
       ELSE AvailableFrom(mapping, i + 1, available_products)

\* get_available_products: the codes of the products returned
get_available_products == AvailableFrom(product_group_mapping, 1, <<>>)

\* the list comprehension of get_orders_by_status, from queue position k on
RECURSIVE OrdersByStatusFrom(_, _, _)
OrdersByStatusFrom(status, k, found) ==
  IF k > Len(orders_queue) THEN found
  ELSE IF orders[orders_queue[k]].status = status
       THEN OrdersByStatusFrom(status, k + 1, Append(found, orders_queue[k]))
       ELSE OrdersByStatusFrom(status, k + 1, found)

get_orders_by_status(status) == OrdersByStatusFrom(status, 1, <<>>)

Next ==
  \/ \E staff_id \in StaffIdInputs : staff_login(staff_id)
  \/ \E staff_id \in StaffIdInputs : staff_logout(staff_id)
  \/ \E items \in RequestLists : place_order(items)
  \/ process_orders
  \/ \E order_number \in OrderNumberInputs, product_code \in ProductCodeInputs :
       complete_order_item(order_number, product_code)

Spec == Init /\ [][Next]_vars

(* ------------------- callers that keep retrying ------------------------ *)
\* the staff ids and request lists of the callers of SpecRetry
RetryStaffIdInputs == {"S001", "S004"}

RetryRequestLists ==
  { <<Req("P001", 2)>>,
    <<Req("P001", 2), Req("S001", 1)>> }

NextRetry ==
  \/ \E staff_id \in RetryStaffIdInputs : staff_login(staff_id)
  \/ \E staff_id \in RetryStaffIdInputs : staff_logout(staff_id)
  \/ \E items \in RetryRequestLists : place_order(items)
  \/ process_orders
  \/ \E order_number \in OrderNumberInputs, product_code \in ProductCodeInputs :
       complete_order_item(order_number, product_code)

\* the callers invoke process_orders again and again: a pass that would
\* dispatch an order is eventually run
SpecRetry ==
  Init /\ [][NextRetry]_vars /\ WF_<<orders, orders_queue>>(process_orders)
(* ------------- process_orders, one statement at a time ----------------- *)
\* the pass of caller c begins: processed_orders = [] and the copy of the
\* queue that the for statement walks
pass_start(c) ==
  /\ passes[c].pc = "idle"
  /\ passes' = [passes EXCEPT ![c] =
                  [pc |-> "check", copy |-> orders_queue, i |-> 1,
                   processed_orders |-> <<>>]]
  /\ UNCHANGED <<orders, orders_queue, staff_logged_in,
                 product_group_mapping, clock, call, ret>>

\* the next order of the copy: the status test and the item loop; the pass
\* returns when the copy is exhausted
pass_check(c) ==
  LET p == passes[c] IN
    /\ p.pc = "check"
    /\ passes' = [passes EXCEPT ![c] =
         IF p.i > Len(p.copy) THEN [p EXCEPT !.pc = "done"]
         ELSE IF orders[p.copy[p.i]].status # "PLACED"
              THEN [p EXCEPT !.i = @ + 1]
         ELSE IF ~all_items_assigned(orders[p.copy[p.i]],
                                     product_group_mapping)
              THEN [p EXCEPT !.i = @ + 1]
         ELSE [p EXCEPT !.pc = "update"]]
    /\ UNCHANGED <<orders, orders_queue, staff_logged_in,
                   product_group_mapping, clock, call, ret>>

\* order.update_status(OrderStatus.WIP); processed_orders.append(order)
pass_update(c) ==
  LET p == passes[c] IN
    /\ p.pc = "update"
    /\ orders' = [orders EXCEPT ![p.copy[p.i]] = update_status(@, "WIP", 0)]
    /\ passes' = [passes EXCEPT ![c] =
                    [p EXCEPT !.pc = "remove",
                              !.processed_orders = Append(@, p.copy[p.i])]]
    /\ UNCHANGED <<orders_queue, staff_logged_in, product_group_mapping,
                   clock, call, ret>>

\* self.orders_queue.remove(order): ValueError when no element is the order
\* or equal to it
pass_remove(c) ==
  LET p == passes[c]
      k == IndexOf(orders_queue, orders, p.copy[p.i], 1)
  IN /\ p.pc = "remove"
     /\ IF k = 0
        THEN /\ passes' = [passes EXCEPT ![c] = [p EXCEPT !.pc = "raised"]]
             /\ UNCHANGED orders_queue
        ELSE /\ orders_queue' = RemoveAt(orders_queue, k)
             /\ passes' = [passes EXCEPT ![c] =
                             [p EXCEPT !.pc = "check", !.i = @ + 1]]
     /\ UNCHANGED <<orders, staff_logged_in, product_group_mapping,
                    clock, call, ret>>

\* the inputs of the callers of SpecConc
ConcStaffIdInputs == {"S001"}

ConcRequestLists == { <<Req("P001", 2)>> }

NextConc ==
  \/ \E c \in Callers : pass_start(c)
  \/ \E c \in Callers : pass_check(c)
  \/ \E c \in Callers : pass_update(c)
  \/ \E c \in Callers : pass_remove(c)
  \/ \E staff_id \in ConcStaffIdInputs : staff_login(staff_id)
  \/ \E items \in ConcRequestLists : place_order(items)

\* two callers run one process_orders pass each, interleaved statement by
\* statement with each other and with place_order
SpecConc == Init /\ [][NextConc]_vars

(* ========================== properties ================================= *)
\* the members of a list
Elems(seq) == {seq[i] : i \in 1..Len(seq)}

\* the staff members that are logged in and skilled for category pt
AvailableStaff(logged, pt) ==
  {s \in StaffIds : logged[s] /\ can_handle_product(s, pt)}

\* the categories of the items of an order
Categories(order) ==
  {products[order.items[i].product_code] : i \in 1..Len(order.items)}

\* the queued orders with status Placed, before the step
PlacedInQueue == {o \in Elems(orders_queue) : orders[o].status = "PLACED"}

\* the step is a call of process_orders
IsProcessStep == call'.op = "process_orders"

\* C1: for every category the capability index holds exactly the staff
\* members that are logged in and have the category in their skills
C1_IndexConsistent ==
  \A pt \in ProductType :
    Elems(product_group_mapping[pt]) = AvailableStaff(staff_logged_in, pt)

\* C1 witness: after a logout, the index of a category keeps the staff member
\* that is still logged in and has lost the one that logged out
C1_Witness ==
  /\ call.op = "staff_logout"
  /\ call.arg = <<"S001">>
  /\ staff_logged_in["S002"]
  /\ product_group_mapping["VEG_PIZZA"] = <<"S002">>
  /\ product_group_mapping["BURGER"] = <<"S002">>
  /\ orders_queue # <<>>

\* C2: a process_orders pass leaves every queued Placed order that has an item
\* whose category has no available staff Placed, queued and unreturned
C2_AllOrNothing ==
  [][IsProcessStep =>
       \A o \in PlacedInQueue :
         (\E pt \in Categories(orders[o]) :
            AvailableStaff(staff_logged_in, pt) = {})
         => /\ orders'[o].status = "PLACED"
            /\ o \in Elems(orders_queue')
            /\ ~ret'.raised
            /\ o \notin Elems(ret'.value)]_vars

\* C2 witness: a pass has run and left queued an order of which one category
\* is covered and another is not, while it dispatched another order
C2_Witness ==
  /\ call.op = "process_orders"
  /\ ~ret.raised
  /\ ret.value # <<>>
  /\ \E o \in Elems(orders_queue) :
       /\ orders[o].status = "PLACED"
       /\ \E pt \in Categories(orders[o]) :
            AvailableStaff(staff_logged_in, pt) = {}
       /\ \E pt \in Categories(orders[o]) :
            AvailableStaff(staff_logged_in, pt) # {}

\* C3: a process_orders pass moves every queued Placed order whose categories
\* are all covered to WIP, out of the queue and into the returned list
C3_DispatchAllEligible ==
  [][IsProcessStep =>
       \A o \in PlacedInQueue :
         (\A pt \in Categories(orders[o]) :
            AvailableStaff(staff_logged_in, pt) # {})
         => /\ orders'[o].status = "WIP"
            /\ o \notin Elems(orders_queue')
            /\ ~ret'.raised
            /\ o \in Elems(ret'.value)]_vars

\* C3 witness: with a single staff member logged in, one pass has dispatched
\* more than one order
C3_Witness ==
  /\ call.op = "process_orders"
  /\ ~ret.raised
  /\ Len(ret.value) >= 2
  /\ Cardinality({s \in StaffIds : staff_logged_in[s]}) = 1
  /\ \A o \in Elems(ret.value) : orders[o].status = "WIP"
\* C4: every status change of an order is Placed to WIP or WIP to Complete
C4_ForwardOnly ==
  [][\A o \in 1..Len(orders) :
       orders'[o].status # orders[o].status
       => \/ orders[o].status = "PLACED" /\ orders'[o].status = "WIP"
          \/ orders[o].status = "WIP" /\ orders'[o].status = "COMPLETE"]_vars

\* C5: the order numbers of all orders created so far are pairwise distinct
C5_UniqueOrderNumbers ==
  \A a, b \in 1..Len(orders) :
    a # b => orders[a].order_number # orders[b].order_number

\* C6: for every order ever created, completed_at is set if and only if the
\* status is Complete
C6_CompletedAtIffComplete ==
  \A o \in 1..Len(orders) :
    (orders[o].completed_at # None) <=> (orders[o].status = "COMPLETE")

\* C6 witness: one order is Complete and stamped, another is WIP and a third
\* is Placed, both unstamped
C6_Witness ==
  /\ \E o \in 1..Len(orders) :
       orders[o].status = "COMPLETE" /\ orders[o].completed_at # None
  /\ \E o \in 1..Len(orders) :
       orders[o].status = "WIP" /\ orders[o].completed_at = None
  /\ \E o \in 1..Len(orders) :
       orders[o].status = "PLACED" /\ orders[o].completed_at = None

\* C7: a process_orders call that directly follows another process_orders
\* call returns the empty list and changes neither the queue nor any order
C7_ProcessTwice ==
  [][(IsProcessStep /\ call'.again) =>
       /\ ret' = Return(<<>>)
       /\ orders_queue' = orders_queue
       /\ orders' = orders]_vars

\* C7 witness: the second of two consecutive passes has run, the first one
\* having dispatched an order and left a Placed order in the queue
C7_Witness ==
  /\ call.op = "process_orders"
  /\ call.again
  /\ ret = Return(<<>>)
  /\ \E o \in 1..Len(orders) : orders[o].status = "WIP"
  /\ \E o \in Elems(orders_queue) : orders[o].status = "PLACED"

\* the position of order o in the list q
Pos(q, o) == CHOOSE k \in 1..Len(q) : q[k] = o

\* C8: no step reorders two orders that are in the queue before and after it,
\* and a successful place_order appends the new order at the tail
C8_FifoPreserved ==
  [][/\ \A a, b \in Elems(orders_queue) \cap Elems(orders_queue') :
          Pos(orders_queue, a) < Pos(orders_queue, b)
          => Pos(orders_queue', a) < Pos(orders_queue', b)
     /\ (call'.op = "place_order" /\ ~ret'.raised)
          => orders_queue' = Append(orders_queue, ret'.order)]_vars

\* C8 witness: a pass has dispatched the order between two orders that it
\* left in the queue
C8_Witness ==
  /\ call.op = "process_orders"
  /\ ~ret.raised
  /\ \E a, b \in Elems(orders_queue), o \in Elems(ret.value) :
       a < o /\ o < b /\ Pos(orders_queue, a) < Pos(orders_queue, b)

\* no item of the request list names a known product code
NoKnownItem(items) ==
  \A i \in 1..Len(items) : items[i].product_code \notin DOMAIN products

\* C9: place_order on a request list without a known product code raises
\* ValueError and leaves the queue unchanged, and after every step every
\* queued order has at least one item
C9_InvalidOrder ==
  [][/\ (call'.op = "place_order" /\ NoKnownItem(call'.arg))
          => /\ ret' = Raise("ValueError")
             /\ orders_queue' = orders_queue
             /\ orders' = orders
     /\ \A o \in Elems(orders_queue') : orders'[o].items # <<>>]_vars

\* C9 witness: place_order has been refused on a list of unknown codes while
\* the queue holds an order whose request list was partly filtered
C9_Witness ==
  /\ call.op = "place_order"
  /\ call.arg = <<Req("X999", 1)>>
  /\ ret = Raise("ValueError")
  /\ \E o \in Elems(orders_queue) : Len(orders[o].items) = 1

\* the queue holds no order with this order number
NotTracked(order_number) ==
  \A o \in Elems(orders_queue) : orders[o].order_number # order_number

\* C10: complete_order_item with an order number that no queued order has
\* returns false and changes nothing
C10_CompleteUnknown ==
  [][(call'.op = "complete_order_item" /\ NotTracked(call'.arg))
       => /\ ret' = ReturnFlag(FALSE)
          /\ UNCHANGED <<orders_queue, orders, staff_logged_in,
                         product_group_mapping>>]_vars

\* C10 witness: complete_order_item has returned false for an order number
\* that is not in a non-empty queue
C10_Witness ==
  /\ call.op = "complete_order_item"
  /\ call.arg = NoSuchOrderNumber
  /\ ret = ReturnFlag(FALSE)
  /\ \E o \in Elems(orders_queue) : orders[o].status = "PLACED"
  /\ \E s \in StaffIds : staff_logged_in[s]
\* the step is a call of staff_login or staff_logout with this id
IsStaffStep(op) == call'.op = op

\* C11: staff_login and staff_logout with an id that is not in the registry
\* return false, add no staff record and leave the login flags, the index
\* and the queue unchanged
C11_UnknownStaff ==
  [][((IsStaffStep("staff_login") \/ IsStaffStep("staff_logout"))
        /\ call'.arg[1] \notin DOMAIN staff_logged_in)
       => /\ ret' = ReturnFlag(FALSE)
          /\ DOMAIN staff_logged_in' = DOMAIN staff_logged_in
          /\ UNCHANGED <<staff_logged_in, product_group_mapping,
                         orders_queue>>]_vars

\* C11 witness: a login with an unknown id has been refused while a staff
\* member is logged in and an order is queued
C11_Witness ==
  /\ call.op = "staff_login"
  /\ call.arg = <<"S999">>
  /\ ret = ReturnFlag(FALSE)
  /\ staff_logged_in["S004"]
  /\ orders_queue # <<>>

\* C12: get_available_products returns, without repetition, exactly the
\* products whose category has a logged-in staff member skilled for it
C12_AvailableProducts ==
  /\ Elems(get_available_products) =
       {c \in DOMAIN products :
          AvailableStaff(staff_logged_in, products[c]) # {}}
  /\ Cardinality(Elems(get_available_products)) = Len(get_available_products)

\* C12 witness: with S001 and S004 logged in, three products are available
\* and two are not
C12_Witness ==
  /\ staff_logged_in["S001"] /\ staff_logged_in["S004"]
  /\ ~staff_logged_in["S002"]
  /\ get_available_products = <<"P001", "S001", "B001">>

\* C13: a logout of s that directly follows a login of s, which found s
\* logged out, restores the login flags and the index the login found
C13_LoginLogoutRoundTrip ==
  [][(IsStaffStep("staff_logout") /\ FollowsFreshLogin(call'.arg[1]))
       => /\ staff_logged_in' = call.before.logged_in
          /\ product_group_mapping' = call.before.mapping]_vars

\* C13 witness: S002 has logged in and out again while S001 stays logged in
C13_Witness ==
  /\ call.op = "staff_logout"
  /\ call.round_trip
  /\ call.arg = <<"S002">>
  /\ staff_logged_in["S001"]
  /\ product_group_mapping["VEG_PIZZA"] = <<"S001">>
  /\ product_group_mapping["SANDWICH"] = <<>>

\* C14: a logout of a known staff member who is logged out, and a logout
\* that repeats the logout before it, return true and change neither the
\* login flags, the index, the queue nor any order
C14_LogoutIdempotent ==
  [][(/\ IsStaffStep("staff_logout")
      /\ call'.arg[1] \in StaffIds
      /\ \/ ~staff_logged_in[call'.arg[1]]
         \/ call.op = "staff_logout" /\ call.arg = call'.arg)
       => /\ ret' = ReturnFlag(TRUE)
          /\ UNCHANGED <<staff_logged_in, product_group_mapping,
                         orders_queue, orders>>]_vars

\* C14 witness: the same staff member has been logged out twice in a row
\* while another one is logged in
C14_Witness ==
  /\ call.op = "staff_logout"
  /\ call.again
  /\ call.arg = <<"S001">>
  /\ ret = ReturnFlag(TRUE)
  /\ staff_logged_in["S004"]

\* the orders with this order number that have been dispatched
DispatchedWith(order_number) ==
  {o \in 1..Len(orders) :
     orders[o].status = "WIP" /\ orders[o].order_number = order_number}

\* C15: complete_order_item with the order number of an order that
\* process_orders has moved to WIP returns true and makes the order Complete
C15_CompleteDispatched ==
  [][(call'.op = "complete_order_item" /\ DispatchedWith(call'.arg) # {})
       => /\ ret' = ReturnFlag(TRUE)
          /\ \A o \in DispatchedWith(call'.arg) :
               orders'[o].status = "COMPLETE"]_vars

\* the orders with this order number that are Complete
CompleteWith(order_number) ==
  {o \in 1..Len(orders) :
     orders[o].status = "COMPLETE" /\ orders[o].order_number = order_number}

\* C16: a Complete order stays Complete in every step, and
\* complete_order_item on a Complete order returns true and changes nothing
\* but the completed_at of that order
C16_CompleteTerminal ==
  [][/\ \A o \in 1..Len(orders) :
          orders[o].status = "COMPLETE" => orders'[o].status = "COMPLETE"
     /\ (call'.op = "complete_order_item" /\ CompleteWith(call'.arg) # {})
          => /\ ret' = ReturnFlag(TRUE)
             /\ UNCHANGED <<orders_queue, staff_logged_in,
                            product_group_mapping>>
             /\ Len(orders') = Len(orders)
             /\ \A o \in 1..Len(orders) :
                  /\ [orders'[o] EXCEPT !.completed_at = None]
                       = [orders[o] EXCEPT !.completed_at = None]
                  /\ o \notin CompleteWith(call'.arg) => orders'[o] = orders[o]
        ]_vars

\* C16 witness: complete_order_item has been invoked on an order that was
\* Complete, which is still queued behind no other order, with staff logged
\* in for its categories
C16_Witness ==
  /\ call.op = "complete_order_item"
  /\ call.again
  /\ ret = ReturnFlag(TRUE)
  /\ \E o \in Elems(orders_queue) :
       /\ orders[o].status = "COMPLETE"
       /\ orders[o].order_number = call.arg
       /\ \A pt \in Categories(orders[o]) :
            AvailableStaff(staff_logged_in, pt) # {}

\* C18: the list process_orders returns holds the orders that became WIP in
\* the pass, each once, in their queue order, all of them Placed and queued
\* before the pass
C18_ReturnedList ==
  [][IsProcessStep =>
       /\ ~ret'.raised
       /\ Elems(ret'.value) =
            {o \in 1..Len(orders) :
               orders[o].status # "WIP" /\ orders'[o].status = "WIP"}
       /\ Cardinality(Elems(ret'.value)) = Len(ret'.value)
       /\ Elems(ret'.value) \subseteq PlacedInQueue
       /\ \A i, j \in 1..Len(ret'.value) :
            i < j => Pos(orders_queue, ret'.value[i])
                       < Pos(orders_queue, ret'.value[j])]_vars

\* C18 witness: a pass has returned the first and the third order and left
\* the second one queued
C18_Witness ==
  /\ call.op = "process_orders"
  /\ ret = Return(<<1, 3>>)
  /\ orders_queue = <<2>>
  /\ orders[2].status = "PLACED"

\* C20: no queued order is WIP, and get_orders_by_status(WIP) is empty
C20_NoWipInQueue ==
  /\ \A o \in Elems(orders_queue) : orders[o].status \in {"PLACED", "COMPLETE"}
  /\ get_orders_by_status("WIP") = <<>>

\* C20 witness: an order has been dispatched and is WIP, and the queue holds
\* a Placed and a Complete order
C20_Witness ==
  /\ \E o \in 1..Len(orders) :
       orders[o].status = "WIP" /\ o \notin Elems(orders_queue)
  /\ get_orders_by_status("PLACED") # <<>>
  /\ get_orders_by_status("COMPLETE") # <<>>
\* order o is queued, Placed, and every category of its items is covered
Pending(o) ==
  /\ o \in Elems(orders_queue)
  /\ orders[o].status = "PLACED"
  /\ \A pt \in Categories(orders[o]) : AvailableStaff(staff_logged_in, pt) # {}

\* C17: when process_orders keeps being invoked, an order that is queued,
\* Placed and covered does not stay so for ever: it is dispatched, unless a
\* logout uncovers one of its categories or it is completed first
C17_Retry ==
  \A o \in 1..MaxOrders :
    Pending(o) ~>
      /\ o <= Len(orders)
      /\ \/ orders[o].status = "WIP" /\ o \notin Elems(orders_queue)
         \/ orders[o].status = "COMPLETE"
         \/ \E pt \in Categories(orders[o]) :
              AvailableStaff(staff_logged_in, pt) = {}

\* C17 witness: the last pass has dispatched an order that an earlier pass
\* skipped (that pass dispatched an order placed after it)
C17_Witness ==
  /\ call.op = "process_orders"
  /\ ~ret.raised
  /\ \E a \in Elems(ret.value), b \in 1..Len(orders) :
       /\ a < b
       /\ orders[b].status = "WIP"
       /\ b \notin Elems(ret.value)
       /\ orders[a].status = "WIP"
       /\ a \notin Elems(orders_queue)
\* the orders a pass of caller c has put in its result
Processed(c) == Elems(passes[c].processed_orders)

\* C19: with concurrent passes no removal fails, no order is put in the
\* result of a pass twice or in the results of two passes, and every order
\* is in the queue or in the result of a pass
C19_NoDoubleNoLoss ==
  /\ \A c \in Callers : passes[c].pc # "raised"
  /\ \A c \in Callers :
       Cardinality(Processed(c)) = Len(passes[c].processed_orders)
  /\ \A c, d \in Callers : c # d => Processed(c) \cap Processed(d) = {}
  /\ \A o \in 1..Len(orders) :
       o \in Elems(orders_queue) \/ \E c \in Callers : o \in Processed(c)
====
